---------------------------- MODULE Spec2Model ----------------------------
(***************************************************************************)
(* A model of awsio/python/lib/io/s3/s3dataset.py: the resolution of a     *)
(* list of S3 locations into a key list (S3BaseClass), the sharded,        *)
(* optionally epoch-shuffled lazy pass over the keys (S3IterableDataset),  *)
(* the demultiplexing of tar and zip objects (tardata, zipdata), and the   *)
(* bounded shuffle buffer (ShuffleDataset).                                *)
(*                                                                         *)
(* Strings whose characters the code inspects (keys, archive entry names)  *)
(* are sequences of one-character strings.  Python's 0-based indices are   *)
(* kept in the values the model stores; TLA+ sequences are 1-based.        *)
(***************************************************************************)
EXTENDS Integers, Sequences, FiniteSets, TLC

(***************************************************************************)
(* Bounds of the model.                                                    *)
(***************************************************************************)
MaxLocs == 2
MaxEpoch == 1
MaxWorld == 2
MaxWorkers == 2
RngMod == 2
MaxBuf == 2
MaxSrc == 4
MaxKeys == 5
MaxEntries == 2

None == "None"

Min(a, b) == IF a <= b THEN a ELSE b
Max(a, b) == IF a >= b THEN a ELSE b

SeqsUpTo(S, n) == UNION { [1..k -> S] : k \in 0..n }

RECURSIVE Flatten(_)
Flatten(ss) == IF ss = << >> THEN << >> ELSE Head(ss) \o Flatten(Tail(ss))

\* Number of positions of s that hold x.
Count(s, x) == Cardinality({ i \in 1..Len(s) : s[i] = x })

\* s and t hold the same elements with the same multiplicities.
SameMultiset(s, t) ==
    /\ Len(s) = Len(t)
    /\ \A i \in 1..Len(s) : Count(s, s[i]) = Count(t, s[i])

(***************************************************************************)
(* Python sequence primitives used by the code.                            *)
(***************************************************************************)
\* s[start:stop:step] for 0 <= start, 0 <= stop <= len(s), step >= 1.
Slice(s, start, stop, step) ==
    LET n == IF start >= stop THEN 0 ELSE (stop - start + step - 1) \div step
    IN  [j \in 1..n |-> s[start + (j - 1) * step + 1]]

\* s[-3:]
Last3(s) == SubSeq(s, Max(1, Len(s) - 2), Len(s))

\* s.pop(i), i 0-based: the list without position i.
PopAt(s, i) == SubSeq(s, 1, i) \o SubSeq(s, i + 2, Len(s))

startswith(s, p) == Len(s) >= Len(p) /\ SubSeq(s, 1, Len(p)) = p
endswith(s, p) == Len(s) >= Len(p) /\ SubSeq(s, Len(s) - Len(p) + 1, Len(s)) = p
Contains(s, c) == \E i \in 1..Len(s) : s[i] = c

(***************************************************************************)
(* The random module: one generator per process.  Its state is a residue   *)
(* modulo RngMod; seed(a) sets the state from a alone, every draw advances *)
(* the state and is a function of it.                                      *)
(***************************************************************************)
RngStates == 0..(RngMod - 1)

random_seed(a) == a % RngMod

\* _randbelow(n), n >= 1: the value drawn and the state after the draw.
randbelow(state, n) == [value |-> state % n, state |-> (state + 1) % RngMod]

\* random.randint(a, b)
randint(state, a, b) ==
    LET d == randbelow(state, b - a + 1)
    IN  [value |-> a + d.value, state |-> d.state]

\* random.sample(population, len(population)): the pool algorithm, which
\* draws j below n - i, takes pool[j] and moves the last live pool element
\* into slot j.
RECURSIVE SamplePool(_, _, _, _)
SamplePool(pool, live, state, result) ==
    IF live = 0 THEN [value |-> result, state |-> state]
    ELSE LET d == randbelow(state, live)
             j == d.value + 1
         IN  SamplePool([pool EXCEPT ![j] = pool[live]], live - 1, d.state,
                        Append(result, pool[j]))

random_sample(state, population) ==
    SamplePool(population, Len(population), state, << >>)


(***************************************************************************)
(* The object store behind _pywrap_s3_io.S3Init(): a fixed bucket.         *)
(*   a.tar   a tar archive, every entry readable                           *)
(*   b.zip   a zip archive whose second entry cannot be read               *)
(*   p/      a prefix holding p/x (plain), p/tar (a tar archive whose      *)
(*           second entry cannot be read) and p/zip (not a zip archive)    *)
(*   q/      a prefix holding q/x, q/c.tar and q/c.zip, objects that exist *)
(*           and whose read fails                                          *)
(*   e/      a prefix holding nothing                                      *)
(***************************************************************************)
kTar == <<"a", ".", "t", "a", "r">>
kZip == <<"b", ".", "z", "i", "p">>
pP == <<"p", "/">>
pQ == <<"q", "/">>
pE == <<"e", "/">>
kPX == <<"p", "/", "x">>
kPTar == <<"p", "/", "t", "a", "r">>
kPZip == <<"p", "/", "z", "i", "p">>
kQX == <<"q", "/", "x">>
kQTar == <<"q", "/", "c", ".", "t", "a", "r">>
kQZip == <<"q", "/", "c", ".", "z", "i", "p">>

Locations == {kTar, kZip, pP, pQ, pE}
Objects == {kTar, kZip, kPX, kPTar, kPZip, kQX, kQTar, kQZip}
Unreadable == {kQX, kQTar, kQZip}

\* A member of an archive: name, whether it is a regular file, whether
\* reading it fails ("none", "read": extracting the member raises, "header":
\* advancing the archive to the member raises), and its content.
Entry(name, isreg, err, data) ==
    [name |-> name, isreg |-> isreg, err |-> err, data |-> data]

TarClean ==
    << Entry(<<"x">>, TRUE, "none", "X"),
       Entry(<<"_", "_", "m", "_", "_">>, TRUE, "none", "M"),
       Entry(<<"d">>, FALSE, "none", ""),
       Entry(<<"_", "_", "m", "_", "_", "/", "y">>, TRUE, "none", "Y"),
       Entry(<<"d", "/", "_", "_", "m", "_", "_">>, TRUE, "none", "N") >>

TarBroken ==
    << Entry(<<"u">>, TRUE, "none", "U"),
       Entry(<<"w">>, TRUE, "read", ""),
       Entry(<<"v">>, TRUE, "none", "V") >>

ZipBroken ==
    << Entry(<<"z">>, TRUE, "none", "Z"),
       Entry(<<"w">>, TRUE, "read", ""),
       Entry(<<"y">>, TRUE, "none", "Y") >>

\* The bytes of an object: raw data, or a well-formed container.
Raw(data) == [fmt |-> "raw", data |-> data, entries |-> << >>]
Tar(entries) == [fmt |-> "tar", data |-> "", entries |-> entries]
Zip(entries) == [fmt |-> "zip", data |-> "", entries |-> entries]

ObjectBytes(key) ==
    CASE key = kTar -> Tar(TarClean)
      [] key = kZip -> Zip(ZipBroken)
      [] key = kPX -> Raw("PX")
      [] key = kPTar -> Tar(TarBroken)
      [] key = kPZip -> Raw("PZ")
      [] OTHER -> Raw("")

\* handler.file_exists(url)
file_exists(url) == url \in Objects

\* handler.list_files(url): the keys under the prefix, in listing order.
list_files(url) ==
    CASE url = pP -> <<kPX, kPTar, kPZip>>
      [] url = pQ -> <<kQX, kQTar, kQZip>>
      [] OTHER -> << >>

\* handler.s3_read(filename): the whole object, or a failure of the store.
s3_read(filename) ==
    IF filename \in Objects \ Unreadable
    THEN [ok |-> TRUE, bytes |-> ObjectBytes(filename)]
    ELSE [ok |-> FALSE, bytes |-> Raw("")]

(***************************************************************************)
(* Archive demultiplexing.  A generator is modelled by its trace: the      *)
(* records it yields in order, and how it ends after the last of them      *)
(* ("stop": StopIteration, "raise": an exception reaches the consumer).    *)
(* The consumer's position in the trace is state of the pass.              *)
(***************************************************************************)
meta_prefix == <<"_", "_">>
meta_suffix == <<"_", "_">>

Trace(recs, exit) == [recs |-> recs, exit |-> exit]
Record(name, data) == [name |-> name, data |-> data]

\* reraise_exception(exn) raises; the other handlers return a boolean.
HandlerRaises(handler) == handler = "reraise_exception"
HandlerReturns(handler) == handler = "return_true"

\* re.match(r"__[^/]*__($|/)", fname): fname[i], fname[i+1] is the second
\* "__".  $ matches at the end of the string and also just before a newline
\* that is the last character of the string.
MatchSkipMeta(fname) ==
    \E i \in 3..(Len(fname) - 1) :
        /\ fname[1] = "_" /\ fname[2] = "_"
        /\ \A k \in 3..(i - 1) : fname[k] # "/"
        /\ fname[i] = "_" /\ fname[i + 1] = "_"
        /\ \/ i + 1 = Len(fname)
           \/ i + 2 = Len(fname) /\ fname[i + 2] = "\n"
           \/ fname[i + 2] = "/"

\* The tests of the loop body of tardata that skip a member (a member read
\* by tarfile always has a name, so the test for a missing name never skips).
TarSkips(tarinfo, skip_meta) ==
    \/ ~tarinfo.isreg
    \/ /\ ~Contains(tarinfo.name, "/")
       /\ startswith(tarinfo.name, meta_prefix)
       /\ endswith(tarinfo.name, meta_suffix)
    \/ skip_meta # None /\ MatchSkipMeta(tarinfo.name)

\* TarLoop that goes on to the next member after a failure in the loop
\* body, whatever the handler does.
RECURSIVE MutTarLoopAlwaysContinues(_, _, _, _, _)
MutTarLoopAlwaysContinues(entries, i, skip_meta, handler, recs) ==
    IF i > Len(entries) THEN Trace(recs, "stop")
    ELSE LET tarinfo == entries[i] IN
         IF tarinfo.err = "header"
         THEN IF HandlerRaises(handler) THEN Trace(recs, "raise")
              ELSE Trace(recs, "stop")
         ELSE IF TarSkips(tarinfo, skip_meta) \/ tarinfo.err = "read"
         THEN MutTarLoopAlwaysContinues(entries, i + 1, skip_meta, handler, recs)
         ELSE MutTarLoopAlwaysContinues(entries, i + 1, skip_meta, handler,
                      Append(recs, Record(tarinfo.name, tarinfo.data)))

\* The loop of tardata over the members from position i on, recs being the
\* records yielded so far.
RECURSIVE TarLoop(_, _, _, _, _)
TarLoop(entries, i, skip_meta, handler, recs) ==
    IF i > Len(entries) THEN Trace(recs, "stop")
    ELSE LET tarinfo == entries[i] IN
         IF tarinfo.err = "header"
         THEN \* raised by the for statement: the outer handler
              IF HandlerRaises(handler) THEN Trace(recs, "raise")
              ELSE Trace(recs, "stop")
         ELSE IF TarSkips(tarinfo, skip_meta)
         THEN TarLoop(entries, i + 1, skip_meta, handler, recs)
         ELSE IF tarinfo.err = "read"
         THEN \* raised in the loop body: the inner handler
              IF HandlerRaises(handler) THEN Trace(recs, "raise")
              ELSE IF HandlerReturns(handler)
                   THEN TarLoop(entries, i + 1, skip_meta, handler, recs)
                   ELSE Trace(recs, "stop")
         ELSE TarLoop(entries, i + 1, skip_meta, handler,
                      Append(recs, Record(tarinfo.name, tarinfo.data)))

tardata(fileobj, skip_meta, handler) ==
    IF fileobj.fmt # "tar"
    THEN \* tarfile.open raises: the outer handler
         IF HandlerRaises(handler) THEN Trace(<< >>, "raise")
         ELSE Trace(<< >>, "stop")
    ELSE TarLoop(fileobj.entries, 1, skip_meta, handler, << >>)

\* ZipLoop that skips a member it cannot read and goes on with the next.
RECURSIVE MutZipLoopSkipsEntry(_, _, _)
MutZipLoopSkipsEntry(entries, i, recs) ==
    IF i > Len(entries) THEN Trace(recs, "stop")
    ELSE IF entries[i].err # "none" THEN MutZipLoopSkipsEntry(entries, i + 1, recs)
    ELSE MutZipLoopSkipsEntry(entries, i + 1,
                 Append(recs, Record(entries[i].name, entries[i].data)))

\* The loop of zipdata over namelist() from position i on.  A failure is
\* printed and ends the loop; the handler argument is never called.
RECURSIVE ZipLoop(_, _, _)
ZipLoop(entries, i, recs) ==
    IF i > Len(entries) THEN Trace(recs, "stop")
    ELSE IF entries[i].err # "none" THEN Trace(recs, "stop")
    ELSE ZipLoop(entries, i + 1,
                 Append(recs, Record(entries[i].name, entries[i].data)))

zipdata(fileobj, handler) ==
    IF fileobj.fmt # "zip" THEN Trace(<< >>, "stop")
    ELSE ZipLoop(fileobj.entries, 1, << >>)

\* download_data that treats a failed store read as an empty object stream.
MutDownloadDataSwallowsReadFailure(filename) ==
    LET r == s3_read(filename) IN
    IF ~r.ok THEN Trace(<< >>, "stop")
    ELSE IF Last3(filename) = <<"t", "a", "r">>
         THEN tardata(r.bytes, "default", "reraise_exception")
    ELSE IF Last3(filename) = <<"z", "i", "p">>
         THEN zipdata(r.bytes, "reraise_exception")
    ELSE Trace(<< Record(filename, r.bytes) >>, "stop")

\* S3IterableDataset.download_data(filename) once its body has started: the
\* store read it issues first, and the trace of what it yields after it.
download_data(filename) ==
    LET r == s3_read(filename) IN
    IF ~r.ok THEN Trace(<< >>, "raise")
    ELSE IF Last3(filename) = <<"t", "a", "r">>
         THEN tardata(r.bytes, "default", "reraise_exception")
    ELSE IF Last3(filename) = <<"z", "i", "p">>
         THEN zipdata(r.bytes, "reraise_exception")
    ELSE Trace(<< Record(filename, r.bytes) >>, "stop")

(***************************************************************************)
(* S3BaseClass                                                             *)
(***************************************************************************)
\* CreateLoop in which a location that exists restarts the list.
RECURSIVE MutCreateLoopReset(_, _, _)
MutCreateLoopReset(urls, i, urls_list) ==
    IF i > Len(urls) THEN [ok |-> TRUE, urls_list |-> urls_list]
    ELSE LET url == urls[i] IN
         IF ~file_exists(url)
         THEN LET url_objects == list_files(url) IN
              IF Len(url_objects) = 0
              THEN [ok |-> FALSE, urls_list |-> << >>]
              ELSE MutCreateLoopReset(urls, i + 1, urls_list \o url_objects)
         ELSE MutCreateLoopReset(urls, i + 1, <<url>>)

\* CreateLoop without the assert.
RECURSIVE MutCreateLoopNoAssert(_, _, _)
MutCreateLoopNoAssert(urls, i, urls_list) ==
    IF i > Len(urls) THEN [ok |-> TRUE, urls_list |-> urls_list]
    ELSE LET url == urls[i] IN
         IF ~file_exists(url)
         THEN MutCreateLoopNoAssert(urls, i + 1, urls_list \o list_files(url))
         ELSE MutCreateLoopNoAssert(urls, i + 1, Append(urls_list, url))

\* The loop of create_urls_list from location i on; urls_list is the list
\* accumulated so far.  The result is the key list, or the failure of the
\* assert.
RECURSIVE CreateLoop(_, _, _)
CreateLoop(urls, i, urls_list) ==
    IF i > Len(urls) THEN [ok |-> TRUE, urls_list |-> urls_list]
    ELSE LET url == urls[i] IN
         IF ~file_exists(url)
         THEN LET url_objects == list_files(url) IN
              IF Len(url_objects) = 0
              THEN [ok |-> FALSE, urls_list |-> << >>]
              ELSE CreateLoop(urls, i + 1, urls_list \o url_objects)
         ELSE IF urls_list # << >>
              THEN CreateLoop(urls, i + 1, Append(urls_list, url))
              ELSE CreateLoop(urls, i + 1, <<url>>)

create_urls_list(urls) == CreateLoop(urls, 1, << >>)

\* S3BaseClass.__init__(urls_list): a single string is one location.
S3BaseClass_init(arg) ==
    create_urls_list(IF arg.isstr THEN <<arg.val>> ELSE arg.val)


(***************************************************************************)
(* State.                                                                  *)
(*   ctx   the execution context of the process: torch.distributed (is it  *)
(*         initialized, world size, rank) and the DataLoader worker the    *)
(*         process is (torch.utils.data.get_worker_info())                 *)
(*   rng   the state of the process's random generator                     *)
(*   ds    the S3IterableDataset instance: st is "none" before the         *)
(*         constructor ran, "ok" once it returned, "failed" when it raised *)
(*         (arg records the urls_list argument it was given)               *)
(*   it    the iterator returned by the latest iter(ds): the assigned keys *)
(*         (urls), the chain's position (idx: the key whose generator is   *)
(*         active, 0 before the first; pos: its next record; dead: it      *)
(*         ended by an exception), the store reads issued (reads), the     *)
(*         records yielded (out), the number of next() calls (pulls) and   *)
(*         of those that raised (errors); epoch and view record the value  *)
(*         of ds.epoch that __iter__ read and the key order it obtained    *)
(*         from shuffled_list                                              *)
(* The process joins its process group and becomes a DataLoader worker at  *)
(* most once, and before its first iter(ds); the constructor may run       *)
(* before or after either.                                                 *)
(*   sd    the ShuffleDataset instance: its buffer_size attribute, and the *)
(*         buffer_size it was constructed with (configured)                *)
(*   sp    the generator returned by the latest iter(sd): what its source  *)
(*         iterator yields this pass (src), how many items were taken from *)
(*         it (taken), shufbuf, the items yielded (out), where it is       *)
(*         suspended (pc), the number of next() calls (pulls), and whether *)
(*         it is the first pass of the instance (first)                    *)
(*   plan  a cluster planning its shards: the key list length, the world   *)
(*         size and worker count, and the shard each (rank, worker)        *)
(*         replica has computed so far                                     *)
(*   gen   a generator obtained by calling tardata or zipdata directly on  *)
(*         the bytes of an archive: the arguments of the call, the         *)
(*         consumer's position in what it yields (pos), the records        *)
(*         yielded (out), the number of next() calls (pulls), and st:      *)
(*         "active", "done" after StopIteration, "raised" after an         *)
(*         exception reached the consumer                                  *)
(* A process that demultiplexes an archive directly does so instead of     *)
(* building a dataset.                                                     *)
(***************************************************************************)
VARIABLES ctx, rng, ds, it, sd, sp, plan, gen

vars == <<ctx, rng, ds, it, sd, sp, plan, gen>>

NoDist == [init |-> FALSE, world_size |-> 0, rank |-> 0]
NoWorker == [active |-> FALSE, id |-> 0, num_workers |-> 0]

\* The arguments a caller may pass as urls_list: one string, or a list.
Args ==
    { [isstr |-> TRUE, val |-> l] : l \in Locations }
    \cup { [isstr |-> FALSE, val |-> ls] : ls \in SeqsUpTo(Locations, MaxLocs) }

NoDataset ==
    [st |-> "none", arg |-> [isstr |-> FALSE, val |-> << >>], epoch |-> 0,
     shuffle_urls |-> FALSE, dist |-> FALSE, world_size |-> 0, rank |-> 0,
     urls_list |-> << >>]

NoGen ==
    [st |-> "none", fn |-> "none", fileobj |-> Raw(""), skip_meta |-> None,
     handler |-> "reraise_exception", pos |-> 1, out |-> << >>, pulls |-> 0]

NoIterator ==
    [st |-> "none", urls |-> << >>, idx |-> 0, pos |-> 1, dead |-> FALSE,
     reads |-> << >>, out |-> << >>, pulls |-> 0, errors |-> 0, epoch |-> 0,
     view |-> << >>]

(***************************************************************************)
(* S3IterableDataset                                                       *)
(***************************************************************************)
\* S3IterableDataset.__init__(urls_list, shuffle_urls) in context c: the
\* instance, or the failed construction.
S3IterableDataset_init(arg, shuffle_urls, c) ==
    LET base == S3BaseClass_init(arg) IN
    [st |-> IF base.ok THEN "ok" ELSE "failed",
     arg |-> arg,
     epoch |-> 0,
     shuffle_urls |-> shuffle_urls,
     dist |-> c.dist.init,
     world_size |-> IF c.dist.init THEN c.dist.world_size ELSE 0,
     rank |-> IF c.dist.init THEN c.dist.rank ELSE 0,
     urls_list |-> base.urls_list]

\* shuffled_list that samples without seeding the generator first.
MutShuffledListNoSeed(self, state) ==
    IF self.shuffle_urls
    THEN LET r == random_sample(state, self.urls_list)
         IN  [value |-> r.value, state |-> r.state, urls_list |-> self.urls_list]
    ELSE [value |-> self.urls_list, state |-> state, urls_list |-> self.urls_list]

\* shuffled_list that shuffles the instance's list in place.
MutShuffledListInPlace(self, state) ==
    IF self.shuffle_urls
    THEN LET r == random_sample(random_seed(self.epoch), self.urls_list)
         IN  [value |-> r.value, state |-> r.state, urls_list |-> r.value]
    ELSE [value |-> self.urls_list, state |-> state, urls_list |-> self.urls_list]

\* The property shuffled_list: the key order of a pass, the generator state
\* it leaves, and the instance's key list after the call (random.sample
\* draws from a copy of its population).
shuffled_list(self, state) ==
    IF self.shuffle_urls
    THEN LET r == random_sample(random_seed(self.epoch), self.urls_list)
         IN  [value |-> r.value, state |-> r.state, urls_list |-> self.urls_list]
    ELSE [value |-> self.urls_list, state |-> state, urls_list |-> self.urls_list]

\* worker_dist with the rank stride starting at 0 instead of self.rank.
MutWorkerDistNoRank(self, worker_info, urls) ==
    LET ranked == IF self.dist
                  THEN Slice(urls, 0, Len(urls), self.world_size)
                  ELSE urls
    IN  IF worker_info.active
        THEN Slice(ranked, worker_info.id, Len(ranked), worker_info.num_workers)
        ELSE ranked

\* worker_dist that never looks at the worker info.
MutWorkerDistNoWorker(self, worker_info, urls) ==
    IF self.dist
    THEN Slice(urls, self.rank, Len(urls), self.world_size)
    ELSE urls

\* worker_dist that asks torch.distributed when called, instead of using
\* what __init__ stored.
MutWorkerDistLiveRank(self, worker_info, urls) ==
    LET ranked == IF ctx.dist.init
                  THEN Slice(urls, ctx.dist.rank, Len(urls), ctx.dist.world_size)
                  ELSE urls
    IN  IF worker_info.active
        THEN Slice(ranked, worker_info.id, Len(ranked), worker_info.num_workers)
        ELSE ranked

\* worker_dist(urls) with get_worker_info() returning worker_info.
worker_dist(self, worker_info, urls) ==
    LET ranked == IF self.dist
                  THEN Slice(urls, self.rank, Len(urls), self.world_size)
                  ELSE urls
    IN  IF worker_info.active
        THEN Slice(ranked, worker_info.id, Len(ranked), worker_info.num_workers)
        ELSE ranked

\* __iter__ that reads the first assigned key before returning.
MutIterPrefetch(self, c, state) ==
    LET view == shuffled_list(self, state).value
        urls == worker_dist(self, c.worker, view)
    IN  [NoIterator EXCEPT !.st = "active",
                           !.urls = urls,
                           !.epoch = self.epoch,
                           !.view = view,
                           !.idx = IF urls = << >> THEN 0 ELSE 1,
                           !.reads = IF urls = << >> THEN << >> ELSE <<urls[1]>>]

\* __iter__: the iterator over get_stream(urls), none of whose generators
\* has started.
S3IterableDataset_iter(self, c, state) ==
    LET view == shuffled_list(self, state).value IN
    [NoIterator EXCEPT !.st = "active",
                       !.urls = worker_dist(self, c.worker, view),
                       !.epoch = self.epoch,
                       !.view = view]

\* chain_next over a key list that is derived again, from the instance as it
\* is now, whenever the next key is needed.
RECURSIVE MutChainNextLive(_)
MutChainNextLive(i) ==
    LET now == worker_dist(ds, ctx.worker, shuffled_list(ds, rng).value)
        tr == IF i.idx = 0 THEN Trace(<< >>, "stop")
              ELSE download_data(i.reads[i.idx])
        live == i.idx > 0 /\ ~i.dead
    IN  IF live /\ i.pos <= Len(tr.recs)
        THEN [i EXCEPT !.out = Append(@, tr.recs[i.pos]), !.pos = @ + 1]
        ELSE IF live /\ tr.exit = "raise"
        THEN [i EXCEPT !.dead = TRUE, !.errors = @ + 1]
        ELSE IF i.idx >= Len(now)
        THEN [i EXCEPT !.st = "done"]
        ELSE MutChainNextLive([i EXCEPT !.idx = @ + 1, !.pos = 1, !.dead = FALSE,
                                        !.reads = Append(@, now[i.idx + 1])])

\* next() on the chain of get_stream: resume the active generator; when it
\* is exhausted (or was ended by an exception) start the generator of the
\* next key, whose first step reads the key from the store.
RECURSIVE chain_next(_)
chain_next(i) ==
    LET tr == IF i.idx = 0 THEN Trace(<< >>, "stop")
              ELSE download_data(i.urls[i.idx])
        live == i.idx > 0 /\ ~i.dead
    IN  IF live /\ i.pos <= Len(tr.recs)
        THEN [i EXCEPT !.out = Append(@, tr.recs[i.pos]), !.pos = @ + 1]
        ELSE IF live /\ tr.exit = "raise"
        THEN [i EXCEPT !.dead = TRUE, !.errors = @ + 1]
        ELSE IF i.idx = Len(i.urls)
        THEN [i EXCEPT !.st = "done"]
        ELSE chain_next([i EXCEPT !.idx = @ + 1, !.pos = 1, !.dead = FALSE,
                                  !.reads = Append(@, i.urls[i.idx + 1])])

\* S3IterableDataset.__len__
S3IterableDataset_len(self) == Len(self.urls_list)

(***************************************************************************)
(* Actions of the S3IterableDataset life cycle.                            *)
(***************************************************************************)
\* dist.init_process_group: the process joins a group of w as rank r.
InitProcessGroup ==
    /\ ~ctx.dist.init
    /\ it.st = "none"
    /\ gen.st = "none"
    /\ \E w \in 1..MaxWorld : \E r \in 0..(w - 1) :
          ctx' = [ctx EXCEPT !.dist = [init |-> TRUE, world_size |-> w, rank |-> r]]
    /\ UNCHANGED <<rng, ds, it, sd, sp, plan, gen>>

\* The DataLoader runs the process as worker i of n.
EnterWorker ==
    /\ ~ctx.worker.active
    /\ it.st = "none"
    /\ gen.st = "none"
    /\ \E n \in 1..MaxWorkers : \E i \in 0..(n - 1) :
          ctx' = [ctx EXCEPT !.worker = [active |-> TRUE, id |-> i, num_workers |-> n]]
    /\ UNCHANGED <<rng, ds, it, sd, sp, plan, gen>>

\* Any other use of the random module in the process, between two passes.
OtherRandomUse ==
    /\ it.st # "active"
    /\ \E s \in RngStates \ {rng} : rng' = s
    /\ UNCHANGED <<ctx, ds, it, sd, sp, plan, gen>>

\* S3IterableDataset(urls_list, shuffle_urls)
Construct ==
    /\ ds.st = "none"
    /\ gen.st = "none"
    /\ \E arg \in Args : \E shuffle_urls \in BOOLEAN :
          ds' = S3IterableDataset_init(arg, shuffle_urls, ctx)
    /\ UNCHANGED <<ctx, rng, it, sd, sp, plan, gen>>

\* ds.set_epoch(epoch)
SetEpoch ==
    /\ ds.st = "ok"
    /\ \E epoch \in 0..MaxEpoch : ds' = [ds EXCEPT !.epoch = epoch]
    /\ UNCHANGED <<ctx, rng, it, sd, sp, plan, gen>>

\* iter(ds)
Iterate ==
    /\ ds.st = "ok"
    /\ it' = S3IterableDataset_iter(ds, ctx, rng)
    /\ rng' = shuffled_list(ds, rng).state
    /\ ds' = [ds EXCEPT !.urls_list = shuffled_list(ds, rng).urls_list]
    /\ UNCHANGED <<ctx, sd, sp, plan, gen>>

\* next(it)
Pull ==
    /\ it.st = "active"
    /\ it' = [chain_next(it) EXCEPT !.pulls = @ + 1]
    /\ UNCHANGED <<ctx, rng, ds, sd, sp, plan, gen>>

(***************************************************************************)
(* tardata and zipdata called directly, on archives of up to MaxEntries    *)
(* members, or on bytes that are no archive.                               *)
(***************************************************************************)
EntryKinds ==
    { Entry(<<"x">>, TRUE, "none", "X"),
      Entry(<<"_", "_", "m", "_", "_">>, TRUE, "none", "M"),
      Entry(<<"d">>, FALSE, "none", ""),
      Entry(<<"d", "/", "_", "_", "m", "_", "_">>, TRUE, "none", "N"),
      Entry(<<"_", "_", "m", "_", "_", "/", "y">>, TRUE, "none", "Y"),
      Entry(<<"_", "_", "m", "_", "_", "\n">>, TRUE, "none", "L"),
      Entry(<<"w">>, TRUE, "read", ""),
      Entry(<<"h">>, TRUE, "header", "") }

Members == SeqsUpTo(EntryKinds, MaxEntries)

Handlers == {"reraise_exception", "return_true", "return_false"}

\* What the generator of the call yields, and how it ends.
GenTrace(g) ==
    IF g.fn = "tardata" THEN tardata(g.fileobj, g.skip_meta, g.handler)
    ELSE zipdata(g.fileobj, g.handler)

\* next() on the generator.
generator_next(g) ==
    LET tr == GenTrace(g) IN
    IF g.pos <= Len(tr.recs)
    THEN [g EXCEPT !.out = Append(@, tr.recs[g.pos]), !.pos = @ + 1]
    ELSE [g EXCEPT !.st = IF tr.exit = "raise" THEN "raised" ELSE "done"]

\* tardata(fileobj, skip_meta, handler)
CallTardata ==
    /\ gen.st = "none" /\ ds.st = "none"
    /\ ctx = [dist |-> NoDist, worker |-> NoWorker]
    /\ \E fileobj \in {Raw("R")} \cup { Tar(es) : es \in Members } :
       \E skip_meta \in {"default", None} : \E handler \in Handlers :
          gen' = [NoGen EXCEPT !.st = "active", !.fn = "tardata",
                               !.fileobj = fileobj, !.skip_meta = skip_meta,
                               !.handler = handler]
    /\ UNCHANGED <<ctx, rng, ds, it, sd, sp, plan>>

\* zipdata(fileobj, handler)
CallZipdata ==
    /\ gen.st = "none" /\ ds.st = "none"
    /\ ctx = [dist |-> NoDist, worker |-> NoWorker]
    /\ \E fileobj \in {Raw("R")} \cup { Zip(es) : es \in Members } :
       \E handler \in Handlers :
          gen' = [NoGen EXCEPT !.st = "active", !.fn = "zipdata",
                               !.fileobj = fileobj, !.handler = handler]
    /\ UNCHANGED <<ctx, rng, ds, it, sd, sp, plan>>

\* next(gen)
GenNext ==
    /\ gen.st = "active"
    /\ gen' = [generator_next(gen) EXCEPT !.pulls = @ + 1]
    /\ UNCHANGED <<ctx, rng, ds, it, sd, sp, plan>>

(***************************************************************************)
(* ShuffleDataset                                                          *)
(***************************************************************************)
Items == {"a", "b"}
Sources == SeqsUpTo(Items, MaxSrc)

NoShuffle == [buffer_size |-> 0, configured |-> 0]
NoPass ==
    [pc |-> "none", src |-> << >>, taken |-> 0, shufbuf |-> << >>,
     out |-> << >>, pulls |-> 0, first |-> FALSE]

\* The item at 0-based position p of the source.
Item(src, p) == [pos |-> p, val |-> src[p + 1]]

\* What one next() on the generator of ShuffleDataset.__iter__ returns to its
\* caller: the generator, the instance's buffer_size and the random state.
Step(p, buffer_size, state) == [p |-> p, buffer_size |-> buffer_size, state |-> state]

\* Evict that yields shufbuf[evict_idx] and leaves it in the buffer.
MutEvictNoPop(p, evict_idx, pc) ==
    IF evict_idx >= Len(p.shufbuf) THEN [p EXCEPT !.pc = "raised"]
    ELSE [p EXCEPT !.out = Append(@, p.shufbuf[evict_idx + 1]),
                   !.pc = pc]

\* yield shufbuf.pop(evict_idx), suspended at pc.
Evict(p, evict_idx, pc) ==
    IF evict_idx >= Len(p.shufbuf) THEN [p EXCEPT !.pc = "raised"]
    ELSE [p EXCEPT !.out = Append(@, p.shufbuf[evict_idx + 1]),
                   !.shufbuf = PopAt(@, evict_idx),
                   !.pc = pc]

\* Drain that ends the pass with items still in shufbuf.
MutDrainNothing(p, buffer_size, state) ==
    Step([p EXCEPT !.pc = "done"], buffer_size, state)

\* The second loop: while len(shufbuf) > 0.
Drain(p, buffer_size, state) ==
    IF Len(p.shufbuf) > 0
    THEN LET d == randint(state, 0, Len(p.shufbuf) - 1)
         IN  Step(Evict(p, d.value, "drain"), buffer_size, d.state)
    ELSE Step([p EXCEPT !.pc = "done"], buffer_size, state)

\* The head of the first loop: while True, up to its yield.
MainHead(p, buffer_size, state) ==
    IF buffer_size = 0 THEN Drain(p, buffer_size, state)
    ELSE LET d == randint(state, 0, buffer_size - 1)
         IN  Step(Evict(p, d.value, "main"), buffer_size, d.state)

\* Fill that takes one item more than buffer_size.
MutFillAhead(p, buffer_size) ==
    LET n == Min(buffer_size + 1, Len(p.src))
    IN  [p |-> [p EXCEPT !.shufbuf = [j \in 1..n |-> Item(p.src, j - 1)],
                         !.taken = n],
         buffer_size |-> n]

\* Fill that takes the whole source.
MutFillNoLimit(p, buffer_size) ==
    LET n == Len(p.src)
    IN  [p |-> [p EXCEPT !.shufbuf = [j \in 1..n |-> Item(p.src, j - 1)],
                         !.taken = n],
         buffer_size |-> n]

\* The fill: next(dataset_iter) buffer_size times; StopIteration sets
\* self.buffer_size to what was taken.
Fill(p, buffer_size) ==
    LET n == Min(buffer_size, Len(p.src))
    IN  [p |-> [p EXCEPT !.shufbuf = [j \in 1..n |-> Item(p.src, j - 1)],
                         !.taken = n],
         buffer_size |-> IF Len(p.src) < buffer_size THEN n ELSE buffer_size]

\* Refill that takes two items from the source after an emission.
MutRefillTwo(p, buffer_size, state) ==
    IF p.taken < Len(p.src)
    THEN LET n == Min(2, Len(p.src) - p.taken)
         IN  MainHead([p EXCEPT !.shufbuf = @ \o [j \in 1..n |-> Item(p.src, p.taken + j - 1)],
                                !.taken = @ + n],
                      buffer_size, state)
    ELSE Drain(p, buffer_size, state)

\* Resuming after the yield of the first loop: next(dataset_iter), then the
\* head of the loop again, or the second loop on StopIteration.
Refill(p, buffer_size, state) ==
    IF p.taken < Len(p.src)
    THEN MainHead([p EXCEPT !.shufbuf = Append(@, Item(p.src, p.taken)),
                            !.taken = @ + 1],
                  buffer_size, state)
    ELSE Drain(p, buffer_size, state)

ShuffleDataset_next(p, buffer_size, state) ==
    CASE p.pc = "new" ->
           LET f == Fill(p, buffer_size) IN MainHead(f.p, f.buffer_size, state)
      [] p.pc = "main" -> Refill(p, buffer_size, state)
      [] p.pc = "drain" -> Drain(p, buffer_size, state)
      [] OTHER -> Step(p, buffer_size, state)

\* iter(sd): a generator that has not started; src is what iter(self.dataset)
\* will yield to it.
ShuffleIterate ==
    /\ sd.configured > 0
    /\ \E src \in Sources :
          sp' = [NoPass EXCEPT !.pc = "new", !.src = src,
                               !.first = (sp.pc = "none")]
    /\ UNCHANGED <<ctx, rng, ds, it, sd, plan, gen>>

\* next(sp)
ShufflePull ==
    /\ sp.pc \in {"new", "main", "drain"}
    /\ LET r == ShuffleDataset_next(sp, sd.buffer_size, rng)
       IN  /\ sp' = [r.p EXCEPT !.pulls = @ + 1]
           /\ sd' = [sd EXCEPT !.buffer_size = r.buffer_size]
           /\ rng' = r.state
    /\ UNCHANGED <<ctx, ds, it, plan, gen>>

(***************************************************************************)
(* A cluster of world_size processes with num_workers DataLoader workers   *)
(* each, every replica holding the same key order and computing its shard  *)
(* with worker_dist.  The keys are named by their index in the key order.  *)
(***************************************************************************)
NoPlan ==
    [n |-> 0, dist |-> FALSE, world_size |-> 1, multi |-> FALSE,
     num_workers |-> 1, shards |-> << >>]

KeyIndices(n) == [i \in 1..n |-> i - 1]

Replicas(pl) == (0..(pl.world_size - 1)) \X (0..(pl.num_workers - 1))

\* The instance held by the replica of rank r.
ReplicaSelf(pl, r) ==
    [NoDataset EXCEPT !.st = "ok", !.dist = pl.dist,
                      !.world_size = IF pl.dist THEN pl.world_size ELSE 0,
                      !.rank = IF pl.dist THEN r ELSE 0,
                      !.urls_list = KeyIndices(pl.n)]

\* get_worker_info() in worker w of the replica's DataLoader.
ReplicaWorker(pl, w) ==
    IF pl.multi THEN [active |-> TRUE, id |-> w, num_workers |-> pl.num_workers]
    ELSE NoWorker

Plans ==
    { [n |-> n, dist |-> d, world_size |-> ws, multi |-> m, num_workers |-> nw,
       shards |-> [rw \in (0..(ws - 1)) \X (0..(nw - 1)) |-> [done |-> FALSE, urls |-> << >>]]] :
      n \in 0..MaxKeys, d \in BOOLEAN, ws \in 1..MaxWorld,
      m \in BOOLEAN, nw \in 1..MaxWorkers }

\* Replica (r, w) computes its shard.
PlanShard ==
    /\ \E rw \in Replicas(plan) :
          /\ ~plan.shards[rw].done
          /\ plan' = [plan EXCEPT !.shards[rw] =
                        [done |-> TRUE,
                         urls |-> worker_dist(ReplicaSelf(plan, rw[1]),
                                              ReplicaWorker(plan, rw[2]),
                                              KeyIndices(plan.n))]]
    /\ UNCHANGED <<ctx, rng, ds, it, sd, sp, gen>>

(***************************************************************************)
(* Specifications.                                                         *)
(***************************************************************************)
\* The life cycle of one S3IterableDataset instance in one process.
Init ==
    /\ ctx = [dist |-> NoDist, worker |-> NoWorker]
    /\ rng \in RngStates
    /\ ds = NoDataset
    /\ it = NoIterator
    /\ sd = NoShuffle
    /\ sp = NoPass
    /\ plan = NoPlan
    /\ gen = NoGen

Next ==
    \/ InitProcessGroup
    \/ EnterWorker
    \/ OtherRandomUse
    \/ Construct
    \/ SetEpoch
    \/ Iterate
    \/ Pull
    \/ CallTardata
    \/ CallZipdata
    \/ GenNext

Spec == Init /\ [][Next]_vars

\* One ShuffleDataset instance over sources of up to MaxSrc items.
ShuffleInit ==
    /\ ctx = [dist |-> NoDist, worker |-> NoWorker]
    /\ rng \in RngStates
    /\ ds = NoDataset
    /\ it = NoIterator
    /\ \E b \in 1..MaxBuf : sd = [buffer_size |-> b, configured |-> b]
    /\ sp = NoPass
    /\ plan = NoPlan
    /\ gen = NoGen

ShuffleNext ==
    \/ ShuffleIterate
    \/ ShufflePull
    \/ OtherRandomUse

ShuffleSpec == ShuffleInit /\ [][ShuffleNext]_vars

\* The replicas of a cluster planning their shards of one key order.
ShardInit ==
    /\ ctx = [dist |-> NoDist, worker |-> NoWorker]
    /\ rng = 0
    /\ ds = NoDataset
    /\ it = NoIterator
    /\ sd = NoShuffle
    /\ sp = NoPass
    /\ plan \in { pl \in Plans : (pl.dist \/ pl.world_size = 1)
                                  /\ (pl.multi \/ pl.num_workers = 1) }
    /\ gen = NoGen

ShardNext == PlanShard

ShardSpec == ShardInit /\ [][ShardNext]_vars

(***************************************************************************)
(* Properties.                                                             *)
(***************************************************************************)
Range(s) == { s[i] : i \in 1..Len(s) }

AllPlanned == \A rw \in Replicas(plan) : plan.shards[rw].done

\* C1: for a non-empty key list, the shards of the (rank, worker) replicas
\* are pairwise disjoint as sets of key indices, no shard holds an index
\* twice, and once every replica has planned, their union is the set of all
\* indices of the key list.
C1_ShardsPartition ==
    plan.n >= 1 =>
      /\ \A a \in Replicas(plan) : \A b \in Replicas(plan) :
            (a # b /\ plan.shards[a].done /\ plan.shards[b].done)
              => Range(plan.shards[a].urls) \cap Range(plan.shards[b].urls) = {}
      /\ \A a \in Replicas(plan) :
            Cardinality(Range(plan.shards[a].urls)) = Len(plan.shards[a].urls)
      /\ AllPlanned =>
            UNION { Range(plan.shards[a].urls) : a \in Replicas(plan) }
              = 0..(plan.n - 1)

C1_Witness ==
    /\ AllPlanned
    /\ plan.n = MaxKeys
    /\ plan.world_size = MaxWorld /\ plan.num_workers = MaxWorkers

\* C8: the size of every planned shard differs from floor(N / (W * C)) by at
\* most 1, and any two planned shards differ in size by at most 1.
C8_ShardSizes ==
    LET q == plan.n \div (plan.world_size * plan.num_workers) IN
    /\ \A a \in Replicas(plan) :
          plan.shards[a].done =>
            /\ Len(plan.shards[a].urls) >= q - 1
            /\ Len(plan.shards[a].urls) <= q + 1
    /\ \A a \in Replicas(plan) : \A b \in Replicas(plan) :
          (plan.shards[a].done /\ plan.shards[b].done)
            => Len(plan.shards[a].urls) - Len(plan.shards[b].urls) <= 1

C8_Witness ==
    /\ AllPlanned
    /\ plan.n = MaxKeys
    /\ plan.world_size = MaxWorld /\ plan.num_workers = MaxWorkers
    /\ \E a \in Replicas(plan) : \E b \in Replicas(plan) :
          Len(plan.shards[a].urls) = Len(plan.shards[b].urls) + 1


Vals(items) == [i \in 1..Len(items) |-> items[i].val]
Positions(items) == { items[i].pos : i \in 1..Len(items) }

\* C2: the first pass of a ShuffleDataset instance, whatever the length of
\* its source: every next() yields an item until the pass ends, the pass
\* ends at the latest with next() number len(source) + 1, without an error,
\* and once it has ended every source position was emitted exactly once, so
\* the emitted items are the source items with their multiplicities.
C2_ShuffleEmitsEachOnce ==
    sp.first =>
      /\ sp.pc # "raised"
      /\ sp.pulls <= Len(sp.src) + 1
      /\ sp.pc \in {"main", "drain"} => Len(sp.out) = sp.pulls
      /\ sp.pc = "done" =>
            /\ Len(sp.out) = Len(sp.src)
            /\ Positions(sp.out) = 0..(Len(sp.src) - 1)
            /\ \A i \in 1..Len(sp.out) : sp.out[i].val = sp.src[sp.out[i].pos + 1]
            /\ SameMultiset(Vals(sp.out), sp.src)

C2_Witness ==
    /\ sp.first /\ sp.pc = "done"
    /\ Len(sp.src) = MaxSrc /\ sd.configured = MaxBuf
    /\ Count(sp.src, "a") = 1
    /\ Vals(sp.out) # sp.src

\* C7 as stated: the item at source position p is emitted at an output
\* position q <= p + B.
C7_Original ==
    sp.first =>
      \A i \in 1..Len(sp.out) : i - 1 <= sp.out[i].pos + sd.configured

\* C7 as amended: an item may be emitted any number of positions after its
\* source position; its output position q is only below the source length
\* (q <= N - 1), and q <= p + B holds when B = 1 or N <= B + 1.
C7_LatenessBoundedBySource ==
    sp.first =>
      \A i \in 1..Len(sp.out) :
         /\ i - 1 <= Len(sp.src) - 1
         /\ (sd.configured = 1 \/ Len(sp.src) <= sd.configured + 1)
               => i - 1 <= sp.out[i].pos + sd.configured

C7_Witness ==
    /\ sp.first /\ sp.pc = "done"
    /\ sd.configured = 2
    /\ Len(sp.src) = 4
    /\ sp.out[4].pos = 0


\* The elements of s at the 0-based indices congruent to start modulo step,
\* in order.
Stride(s, start, step) ==
    LET n == Cardinality({ i \in 0..(Len(s) - 1) : i % step = start })
    IN  [j \in 1..n |-> s[start + (j - 1) * step + 1]]

\* The shard of a key order for a rank of a world (when distributed) and a
\* worker (when in a DataLoader worker).
ShardOf(view, distributed, rank, world_size, worker) ==
    LET ranked == IF distributed THEN Stride(view, rank, world_size) ELSE view
    IN  IF worker.active THEN Stride(ranked, worker.id, worker.num_workers)
        ELSE ranked

\* The records of a key, in archive order.
Recs(key) == download_data(key).recs

\* C3: with shuffle_urls set, the key order a pass obtained is a permutation
\* of the key list, and it is the order shuffled_list returns for the same
\* key list and epoch from every state of the random generator: another
\* replica, or another pass, with that epoch obtains the same order whatever
\* was drawn before.
C3_EpochDeterminesPermutation ==
    (it.st # "none" /\ ds.shuffle_urls) =>
      /\ SameMultiset(it.view, ds.urls_list)
      /\ \A s \in RngStates :
            shuffled_list([ds EXCEPT !.epoch = it.epoch], s).value = it.view

C3_Witness ==
    /\ it.st = "active" /\ ds.shuffle_urls
    /\ Len(ds.urls_list) >= 3
    /\ it.view # ds.urls_list
    /\ it.epoch = 1

\* C4: iter(ds) reads nothing from the store; the keys read so far are the
\* first assigned keys in order; the records yielded so far are all records
\* of every key read before the latest one, key after key in archive order,
\* followed by the first records of the latest; and the latest key was read
\* by a next() that came after the ones that yielded those records.
C4_ReadsOnDemand ==
    it.st # "none" =>
      LET prev == Flatten([j \in 1..(it.idx - 1) |-> Recs(it.urls[j])]) IN
      /\ it.reads = SubSeq(it.urls, 1, it.idx)
      /\ it.pulls = 0 => it.reads = << >>
      /\ it.idx = 0 => it.out = << >>
      /\ it.idx >= 1 =>
            /\ it.out = prev \o SubSeq(Recs(it.urls[it.idx]), 1, it.pos - 1)
            /\ it.pulls > Len(prev)

C4_Witness ==
    /\ it.st = "active"
    /\ it.idx = 2 /\ it.pos = 2
    /\ Len(Recs(it.urls[1])) = 2
    /\ Len(it.urls) = 4
    /\ it.pulls = 3

\* C5 as stated: the shard of a pass is computed from the distributed state,
\* rank and world size, and the worker id and count, of the execution
\* context at the iter(ds) call.
C5_Original ==
    it.st # "none" =>
      it.urls = ShardOf(it.view, ctx.dist.init, ctx.dist.rank,
                        ctx.dist.world_size, ctx.worker)

\* C5 as amended: the worker id and count are those of the execution
\* context at the iter(ds) call; the distributed state, rank and world size
\* are those the constructor stored in the instance.
C5_ShardFromStoredRankAndLiveWorker ==
    it.st # "none" =>
      it.urls = ShardOf(it.view, ds.dist, ds.rank, ds.world_size, ctx.worker)

C5_Witness ==
    /\ it.st = "active"
    /\ ~ds.dist /\ ctx.dist.init /\ ctx.dist.world_size = 2
    /\ ctx.worker.active /\ ctx.worker.num_workers = 2 /\ ctx.worker.id = 1
    /\ Len(it.view) = 4
    /\ Len(it.urls) = 2

\* C6: the keys of a pass, and the order in which it reads them, are the
\* shard of the key order for the epoch that was current at its iter(ds)
\* call, whatever set_epoch has stored since.
C6_PassKeepsItsEpoch ==
    it.st # "none" =>
      LET view == IF ds.shuffle_urls
                  THEN random_sample(random_seed(it.epoch), ds.urls_list).value
                  ELSE ds.urls_list
          shard == ShardOf(view, ds.dist, ds.rank, ds.world_size, ctx.worker)
      IN  /\ it.urls = shard
          /\ Len(it.reads) <= Len(shard)
          /\ it.reads = SubSeq(shard, 1, Len(it.reads))
          /\ it.st = "done" => it.reads = shard

C6_Witness ==
    /\ it.st = "done"
    /\ ds.shuffle_urls
    /\ ds.epoch # it.epoch
    /\ Len(it.reads) >= 2
    /\ it.urls # worker_dist(ds, ctx.worker, shuffled_list(ds, rng).value)

\* The locations of a urls_list argument.
ArgList(arg) == IF arg.isstr THEN <<arg.val>> ELSE arg.val

\* What a location stands for: itself when it exists, else the keys listed
\* under it.
Contribution(url) == IF file_exists(url) THEN <<url>> ELSE list_files(url)

EmptyPrefix(url) == ~file_exists(url) /\ Len(list_files(url)) = 0

\* C9: the key list of a constructed instance is the concatenation, in the
\* order of the locations given, of each location's contribution.
C9_KeyListIsConcatenation ==
    ds.st = "ok" =>
      ds.urls_list =
        Flatten([i \in 1..Len(ArgList(ds.arg)) |-> Contribution(ArgList(ds.arg)[i])])

C9_Witness ==
    /\ ds.st = "ok"
    /\ ~ds.arg.isstr
    /\ ds.arg.val = <<pP, kTar>>
    /\ ds.urls_list = <<kPX, kPTar, kPZip, kTar>>

\* C10: when a location of the argument neither exists nor lists any key,
\* the constructor fails: there is no instance, no key list, and no iterator
\* or store read ever exists.
C10_EmptyPrefixFailsConstruction ==
    (ds.st # "none" /\ \E i \in 1..Len(ArgList(ds.arg)) : EmptyPrefix(ArgList(ds.arg)[i]))
      => /\ ds.st = "failed"
         /\ ds.urls_list = << >>
         /\ it = NoIterator

C10_Witness ==
    /\ ds.st = "failed"
    /\ ~ds.arg.isstr
    /\ ds.arg.val = <<kTar, pE>>


\* C11: in the first pass of an instance constructed with buffer_size 1, the
\* items emitted so far are the first items of the source, in source order,
\* whatever the random generator draws, and the pass ends, without an
\* error, having emitted the whole source.
C11_BufferOneIsPassThrough ==
    (sp.first /\ sd.configured = 1) =>
      /\ sp.pc # "raised"
      /\ Len(sp.out) <= Len(sp.src)
      /\ \A i \in 1..Len(sp.out) : sp.out[i].pos = i - 1
      /\ Vals(sp.out) = SubSeq(sp.src, 1, Len(sp.out))
      /\ sp.pc = "done" => Vals(sp.out) = sp.src

C11_Witness ==
    /\ sp.first /\ sd.configured = 1
    /\ sp.pc = "done"
    /\ sp.src = <<"a", "b", "b", "a">>
    /\ Vals(sp.out) = <<"a", "b", "b", "a">>


\* The container kind of a key by its filename suffix, dot included.
KindBySuffix(key) ==
    IF endswith(key, <<".", "t", "a", "r">>) THEN "TAR"
    ELSE IF endswith(key, <<".", "z", "i", "p">>) THEN "ZIP"
    ELSE "NONE"

\* The records of a key whose container kind is inferred by KindBySuffix.
RecsBySuffix(key) ==
    LET r == s3_read(key) IN
    IF ~r.ok THEN << >>
    ELSE CASE KindBySuffix(key) = "TAR" ->
                tardata(r.bytes, "default", "reraise_exception").recs
           [] KindBySuffix(key) = "ZIP" ->
                zipdata(r.bytes, "reraise_exception").recs
           [] OTHER -> << Record(key, r.bytes) >>

\* C12: the records a pass has yielded are those of its keys, key after key,
\* where a key is demultiplexed as tar exactly when it ends in ".tar", as
\* zip exactly when it ends in ".zip", and yields the one record (key, whole
\* bytes) in every other case.
C12_KindFromDottedSuffix ==
    it.idx >= 1 =>
      it.out = Flatten([j \in 1..(it.idx - 1) |-> RecsBySuffix(it.urls[j])])
               \o SubSeq(RecsBySuffix(it.urls[it.idx]), 1, it.pos - 1)


\* The first path segment of a name: what precedes its first "/".
TopSegment(name) ==
    LET stops == { i \in 1..Len(name) : name[i] = "/" }
    IN  IF stops = {} THEN name
        ELSE SubSeq(name, 1, (CHOOSE i \in stops : \A k \in stops : i <= k) - 1)

\* A segment of the form __...__
Bracketed(seg) ==
    Len(seg) >= 4 /\ startswith(seg, meta_prefix) /\ endswith(seg, meta_suffix)

\* The entries tardata is to yield with the default skip pattern.
KeptByDefault(e) ==
    /\ e.isreg
    /\ ~(~Contains(e.name, "/") /\ startswith(e.name, meta_prefix)
                                /\ endswith(e.name, meta_suffix))
    /\ ~Bracketed(TopSegment(e.name))

KeptRecords(entries) ==
    LET kept == SelectSeq(entries, KeptByDefault)
    IN  [i \in 1..Len(kept) |-> Record(kept[i].name, kept[i].data)]

\* C13: tardata with the default skip pattern, on an archive every entry of
\* which can be read, yields in archive order exactly the entries that are
\* regular files, are no bare name that starts and ends with "__", and whose
\* first path segment is not of the form __...__; it ends without an error.
C13_DefaultSkipPattern ==
    (/\ gen.fn = "tardata" /\ gen.skip_meta = "default"
     /\ gen.fileobj.fmt = "tar"
     /\ \A i \in 1..Len(gen.fileobj.entries) : gen.fileobj.entries[i].err = "none")
      => /\ gen.st # "raised"
         /\ gen.out = SubSeq(KeptRecords(gen.fileobj.entries), 1, Len(gen.out))
         /\ gen.st = "done" => gen.out = KeptRecords(gen.fileobj.entries)


\* The first member of an archive, among those tardata does not skip, whose
\* content cannot be read (Len(entries) + 1 when there is none).
FirstFailure(entries, skip_meta) ==
    LET failing == { i \in 1..Len(entries) :
                       ~TarSkips(entries[i], skip_meta) /\ entries[i].err = "read" }
    IN  IF failing = {} THEN Len(entries) + 1
        ELSE CHOOSE i \in failing : \A k \in failing : i <= k

\* The records of the members among the first n that tardata does not skip
\* and can read.
ReadRecords(entries, skip_meta, n) ==
    LET Readable(e) == ~TarSkips(e, skip_meta) /\ e.err = "none"
        kept == SelectSeq(SubSeq(entries, 1, n), Readable)
    IN  [i \in 1..Len(kept) |-> Record(kept[i].name, kept[i].data)]

\* What the handler's answer to the failure of a member makes of an archive.
HandledTar(entries, skip_meta, handler) ==
    LET f == FirstFailure(entries, skip_meta) IN
    IF handler = "return_true"
    THEN Trace(ReadRecords(entries, skip_meta, Len(entries)), "stop")
    ELSE Trace(ReadRecords(entries, skip_meta, f - 1),
               IF f <= Len(entries) /\ handler = "reraise_exception"
               THEN "raise" ELSE "stop")

\* A generator of tardata called directly, on an archive whose members can
\* all be reached, yields what HandledTar says and ends as it says.
GenHandlesFailures ==
    (/\ gen.fn = "tardata" /\ gen.fileobj.fmt = "tar"
     /\ \A i \in 1..Len(gen.fileobj.entries) : gen.fileobj.entries[i].err # "header")
      => LET e == HandledTar(gen.fileobj.entries, gen.skip_meta, gen.handler) IN
         /\ gen.out = SubSeq(e.recs, 1, Len(gen.out))
         /\ gen.st = "done" => gen.out = e.recs /\ e.exit = "stop"
         /\ gen.st = "raised" => gen.out = e.recs /\ e.exit = "raise"

\* The assigned key is a tar archive one of whose members cannot be read.
TarKeyRaises(key) ==
    /\ s3_read(key).ok
    /\ Last3(key) = <<"t", "a", "r">>
    /\ HandledTar(s3_read(key).bytes.entries, "default", "reraise_exception").exit
         = "raise"

\* All records of the first j assigned keys.
RecsUpTo(j) == Flatten([k \in 1..j |-> Recs(it.urls[k])])

\* The failure of the key at position j has reached the consumer.
Surfaced(j) == j < it.idx \/ (j = it.idx /\ it.dead)

\* C14 as stated: the handler's answer decides what follows the failure of a
\* member (true: the member is skipped and the later ones are yielded; false:
\* the archive ends there without an error; the default handler: the failure
\* is raised to the consumer), and in a pass a raised failure ends the pass:
\* no record of a later key is yielded.
C14_Original ==
    /\ GenHandlesFailures
    /\ \A j \in 1..it.idx :
          (TarKeyRaises(it.urls[j]) /\ Surfaced(j))
            => Len(it.out) <= Len(RecsUpTo(j))

\* C14 as amended: the handler's answer decides what follows the failure of
\* a member, as stated; in a pass the failure is raised to the consumer by
\* the next() that reached the member, after the records of the members
\* before it and of the earlier keys, and no later member of that archive is
\* yielded; the iterator is not ended, and a later next() goes on with the
\* next assigned key.
C14_HandlerDecidesAfterFailure ==
    /\ GenHandlesFailures
    /\ \A j \in 1..it.idx :
          (TarKeyRaises(it.urls[j]) /\ Surfaced(j))
            => LET e == HandledTar(s3_read(it.urls[j]).bytes.entries,
                                   "default", "reraise_exception")
               IN  /\ it.errors >= 1
                   /\ it.pulls >= Len(RecsUpTo(j)) + 1
                   /\ SubSeq(it.out, 1, Len(RecsUpTo(j - 1)) + Len(e.recs))
                        = RecsUpTo(j - 1) \o e.recs
                   /\ j = it.idx => Len(it.out) = Len(RecsUpTo(j - 1)) + Len(e.recs)
                   /\ j < it.idx =>
                        it.out = RecsUpTo(it.idx - 1)
                                 \o SubSeq(Recs(it.urls[it.idx]), 1, it.pos - 1)

C14_Witness ==
    /\ it.st = "active" /\ it.errors = 1
    /\ \E j \in 1..(it.idx - 1) :
          /\ TarKeyRaises(it.urls[j])
          /\ Len(RecsUpTo(j)) >= 2
          /\ Len(it.out) > Len(RecsUpTo(j))


\* The first n elements of s, all of s when it has fewer.
Take(s, n) == SubSeq(s, 1, Min(n, Len(s)))

\* The records of the members of a zip archive that precede the first one
\* that cannot be read; none when the bytes are no zip archive.
ZipRecordsBeforeFailure(fileobj) ==
    LET es == fileobj.entries
        failing == { i \in 1..Len(es) : es[i].err # "none" }
        n == IF failing = {} THEN Len(es)
             ELSE (CHOOSE i \in failing : \A k \in failing : i <= k) - 1
    IN  IF fileobj.fmt # "zip" THEN << >>
        ELSE [i \in 1..n |-> Record(es[i].name, es[i].data)]

\* The assigned key is handed to zipdata.
ZipKey(key) == s3_read(key).ok /\ Last3(key) = <<"z", "i", "p">>

\* C15: a generator of zipdata never raises: it yields the members that
\* precede the first failure (none when the archive cannot be opened) and
\* ends.  In a pass, the generator of a zip key never ends by an exception,
\* its records are those that precede the failure, the key that follows it
\* is read next, and the pass ends only after its last assigned key.
C15_ZipFailureEndsArchiveOnly ==
    /\ gen.fn = "zipdata" =>
          LET e == ZipRecordsBeforeFailure(gen.fileobj) IN
          /\ gen.st # "raised"
          /\ gen.out = Take(e, Len(gen.out))
          /\ gen.st = "done" => gen.out = e
    /\ \A j \in 1..it.idx :
          ZipKey(it.urls[j]) =>
            LET e == ZipRecordsBeforeFailure(s3_read(it.urls[j]).bytes) IN
            /\ ~(j = it.idx /\ it.dead)
            /\ j = it.idx => it.out = RecsUpTo(j - 1) \o Take(e, it.pos - 1)
            /\ j < it.idx =>
                 /\ Take(it.out, Len(RecsUpTo(j - 1)) + Len(e))
                      = RecsUpTo(j - 1) \o e
                 /\ it.reads[j + 1] = it.urls[j + 1]
            /\ it.st = "done" => it.idx = Len(it.urls)

C15_Witness ==
    /\ it.st = "active" /\ it.errors = 0
    /\ \E j \in 1..(it.idx - 1) :
          /\ it.urls[j] = kZip
          /\ Len(it.out) > Len(RecsUpTo(j))
          /\ Len(it.out) < Len(RecsUpTo(j)) + Len(ZipBroken)


\* The store's read of the key fails.
ReadFails(key) == ~s3_read(key).ok

\* C16 as stated: when the read of an assigned key fails, the next() that
\* issued the read raises, the key is not read again, and the pass is over:
\* the records yielded are those of the earlier keys and no later key is
\* read.
C16_Original ==
    \A j \in 1..it.idx :
       ReadFails(it.urls[j]) =>
         /\ j = it.idx /\ it.dead
         /\ it.errors >= 1
         /\ Len(it.reads) = it.idx /\ it.reads[j] = it.urls[j]
         /\ it.out = RecsUpTo(j - 1)

\* C16 as amended: when the read of an assigned key fails, whatever the
\* kind of the key, the next() that issued the read raises, the key is not
\* read again and yields no record, and the records of the earlier keys
\* stay as they were; the iterator is not ended, and a later next() reads
\* the next assigned key and yields its records.
C16_ReadFailureSurfacesAtItsPull ==
    \A j \in 1..it.idx :
       ReadFails(it.urls[j]) =>
         /\ Surfaced(j)
         /\ it.errors >= 1
         /\ it.pulls >= Len(RecsUpTo(j - 1)) + 1
         /\ Len(it.reads) = it.idx /\ it.reads[j] = it.urls[j]
         /\ Take(it.out, Len(RecsUpTo(j - 1))) = RecsUpTo(j - 1)
         /\ j = it.idx => it.out = RecsUpTo(j - 1)
         /\ j < it.idx =>
              it.out = RecsUpTo(j - 1)
                       \o Flatten([k \in 1..(it.idx - 1 - j) |-> Recs(it.urls[j + k])])
                       \o Take(Recs(it.urls[it.idx]), it.pos - 1)

C16_Witness ==
    /\ it.st = "active"
    /\ \E j \in 1..(it.idx - 1) :
          /\ it.urls[j] = kQTar
          /\ it.errors >= 1
          /\ Len(it.out) > Len(RecsUpTo(j))


\* The key list the constructor resolves from its argument.
ResolvedKeys(arg) ==
    Flatten([i \in 1..Len(ArgList(arg)) |-> Contribution(ArgList(arg)[i])])

\* C17: no step changes the key list of a constructed instance, in content
\* or order, and len(ds) is at every point the number of keys the
\* constructor resolved, whatever the epoch, the shard and the records
\* yielded.
C17_KeyListAndLengthAreStable ==
    /\ [](ds.st = "ok" => S3IterableDataset_len(ds) = Len(ResolvedKeys(ds.arg)))
    /\ [][ds.st = "ok" =>
            /\ ds'.urls_list = ds.urls_list
            /\ S3IterableDataset_len(ds') = S3IterableDataset_len(ds)]_vars

C17_Witness ==
    /\ it.st = "active" /\ ds.shuffle_urls
    /\ ds.epoch = 1 /\ it.epoch = 0
    /\ it.view # ds.urls_list
    /\ Len(it.urls) < Len(ds.urls_list)
    /\ Len(it.out) > Len(it.urls)
    /\ S3IterableDataset_len(ds) = 4


\* C18: a pass leaves the buffer_size of its instance as it was configured,
\* and every pass of the instance, the first or a later one, ends without an
\* error having emitted every position of its own source exactly once.
C18_PassOwnsItsWorkingState ==
    /\ sd.buffer_size = sd.configured
    /\ sp.pc # "raised"
    /\ sp.pc = "done" =>
          /\ Len(sp.out) = Len(sp.src)
          /\ Positions(sp.out) = 0..(Len(sp.src) - 1)


\* C19: in every pass of an instance configured with buffer size B, the
\* items taken from the source and not yet emitted are those in shufbuf;
\* they are at most B when an item is emitted (one more than after the
\* emission), and the source has given at most the initial fill of
\* min(B, len(source)) items plus one item for each emission but the latest.
C19_AtMostBufferSizePending ==
    LET B == sd.configured
        emitted == Len(sp.out)
    IN  /\ sp.taken - emitted = Len(sp.shufbuf)
        /\ Len(sp.shufbuf) + (IF emitted >= 1 THEN 1 ELSE 0) <= B
        /\ sp.taken <= Min(B, Len(sp.src)) + Max(emitted - 1, 0)

C19_Witness ==
    /\ sd.configured = 2 /\ sp.pc = "main"
    /\ Len(sp.src) = 4
    /\ Len(sp.out) = 2 /\ sp.taken = 3
    /\ Len(sp.shufbuf) = 1

\* C20: in every pass of an instance configured with buffer size B, the
\* item emitted at output position q has a source position p < q + B.
C20_EarlinessBoundedByBuffer ==
    \A i \in 1..Len(sp.out) : sp.out[i].pos < (i - 1) + sd.configured

C20_Witness ==
    /\ sd.configured = 2 /\ sp.pc = "done"
    /\ Len(sp.src) = 4 /\ Len(sp.out) = 4
    /\ sp.out[1].pos = 1
    /\ sp.out[2].pos = 2
    /\ sp.out[3].pos = 3

=============================================================================
